---- MODULE Spec2Model ----
(***************************************************************************)
(* LastCharts: the incremental scrobble synchronisation of                 *)
(* src/src/lastcharts/lastfm.py (class LastFM): load_user reads the user's *)
(* csv file, derives the `from` cursor, walks the pages of                 *)
(* user.getRecentTracks (_get_all_scrobbles), parses them                  *)
(* (_parse_responses), puts the new rows before the stored ones and writes *)
(* the csv file back.                                                      *)
(*                                                                         *)
(* Times are seconds since the epoch.  Text is a sequence of one-character *)
(* strings, so that str.replace and the csv conversion are computed.       *)
(***************************************************************************)
EXTENDS Integers, Sequences, FiniteSets, TLC

(***************************************************************************)
(* Bounds of the model.                                                    *)
(***************************************************************************)
\* scrobble times are 30 * k seconds, k \in 1..MaxTick
MaxTick == 5
\* scrobbles the remote service ever holds
MaxEvents == 5
\* changes of the remote service (scrobbles, now-playing changes)
MaxEnvSteps == 5
\* calls of load_user
MaxSyncs == 3
\* entries per page (the code asks for limit=200)
PageLimit == 2
\* responses of a fetch result handed to _parse_responses on its own
MaxPages == 2

(***************************************************************************)
(* Values.                                                                 *)
(***************************************************************************)
\* pandas NaT / a row whose "date" is missing (None at lastfm.py:157)
NaT == -1
\* pandas NaN in a text column: what read_csv yields for an empty field
NaN == <<"nan">>
\* total_pages = 9999, the placeholder until the first response
Placeholder == 9999
\* the csv file does not exist (os.path.exists(path) is False)
NoFile == [exists |-> FALSE, rows |-> <<>>]
\* df = None
None == [none |-> TRUE, rows |-> <<>>]

\* what the remote service knows of a track: the texts of one entry
TrackInfos ==
  << [artist |-> <<"a">>,      album |-> <<>>,      name |-> <<"$", "x">>, image |-> <<"i">>],
     [artist |-> <<"A", "$">>, album |-> <<"b">>,   name |-> <<"y">>,      image |-> <<>>] >>

VARIABLES
  scrobbles,    \* remote: the user's scrobbles, oldest first: [uts, info]
  nowplaying,   \* remote: index of the track now playing, 0 when none
  version,      \* remote: number of changes so far
  csv,          \* the user's csv file: [exists, rows as written]
  pc,           \* load_user: "idle", "fetch", "returned", "raised"
  df,           \* load_user: df, [none, rows]: None or the record read
  start,        \* load_user: the `from` cursor
  page,         \* _get_all_scrobbles: page
  total_pages,  \* _get_all_scrobbles: total_pages
  responses,    \* _get_all_scrobbles: responses
  requests,     \* the requests this call issued: [page, limit, from, result,
                \*   cached, slept]
  df_new,       \* load_user: what _get_all_scrobbles returned
  ret,          \* what load_user returned
  exc,          \* the exception load_user raised, "none" when it returned
  csv0,         \* the csv file when this call started
  n0,           \* scrobbles the remote service held when this call started
  prev,         \* the call before this one: [returned, n0, csv]
  syncs,        \* calls of load_user so far
  cursors       \* the `from` cursors of the calls that returned, in order

vars == << scrobbles, nowplaying, version, csv, pc, df, start, page,
           total_pages, responses, requests, df_new, ret, exc, csv0, n0,
           prev, syncs, cursors >>

(***************************************************************************)
(* Helpers on sequences.                                                   *)
(***************************************************************************)
Min(a, b) == IF a < b THEN a ELSE b

RECURSIVE Concat(_)
\* pd.concat of a list of frames, rows in list order
Concat(frames) ==
  IF frames = <<>> THEN <<>> ELSE Head(frames) \o Concat(Tail(frames))

RECURSIVE Reverse(_)
Reverse(s) == IF s = <<>> THEN <<>> ELSE Reverse(Tail(s)) \o <<Head(s)>>

RECURSIVE SelectFrom(_, _)
\* the scrobbles of s with uts >= from, in the order of s
SelectFrom(s, from) ==
  IF s = <<>> THEN <<>>
  ELSE (IF Head(s).uts >= from THEN <<Head(s)>> ELSE <<>>)
       \o SelectFrom(Tail(s), from)

(***************************************************************************)
(* The remote service, user.getRecentTracks, as the code reads it: the     *)
(* scrobbles at or after `from`, most recent first, PageLimit a page; the  *)
(* track now playing heads every page and carries no "date"; "date" is the *)
(* display text, which holds the time to the minute.                       *)
(***************************************************************************)
\* row["date"]["#text"], "%d %b %Y, %H:%M": the minute of the scrobble
DateText(uts) == [minute |-> uts \div 60]

\* the entries a scrobble / the track now playing arrive as
Entry(info, hasDate, uts) ==
  [artist |-> TrackInfos[info].artist, album |-> TrackInfos[info].album,
   name |-> TrackInfos[info].name, image |-> TrackInfos[info].image,
   hasDate |-> hasDate, date |-> DateText(uts)]

\* the scrobbles the `from` filter keeps, most recent first
Matching(from) == Reverse(SelectFrom(scrobbles, from))

\* response.json()["recenttracks"]["@attr"]["totalPages"]
TotalPages(from) == (Len(Matching(from)) + PageLimit - 1) \div PageLimit

\* response.json()["recenttracks"]["track"] of page p
Tracks(from, p) ==
  LET m    == Matching(from)
      lo   == (p - 1) * PageLimit + 1
      hi   == Min(p * PageLimit, Len(m))
      part == IF lo > hi THEN <<>> ELSE SubSeq(m, lo, hi)
  IN  (IF nowplaying # 0 THEN <<Entry(nowplaying, FALSE, 0)>> ELSE <<>>)
      \o [i \in 1..Len(part) |-> Entry(part[i].info, TRUE, part[i].uts)]

\* a status-200 response of requests.get
Response(from, p, hasTracks) ==
  [totalPages |-> TotalPages(from), hasTracks |-> hasTracks,
   track |-> IF hasTracks THEN Tracks(from, p) ELSE <<>>]

(***************************************************************************)
(* _parse_responses                                                        *)
(***************************************************************************)
\* pd.to_datetime(text, format="%d %b %Y, %H:%M", utc=True); None stays NaT
ToDatetime(hasDate, date) == IF hasDate THEN date.minute * 60 ELSE NaT

\* timedelta(minutes=3)
SynthOffset == 180

\* str.replace left out: the character is kept
ReplaceCharKept(c) == c

\* one character of str.replace("$", "s")
ReplaceChar(c) == IF c = "$" THEN "s" ELSE c

\* Series.str.replace("$", "s") on one value
ReplaceDollar(text) ==
  IF text = NaN THEN NaN ELSE [i \in DOMAIN text |-> ReplaceChar(text[i])]

\* df_r of one response: one row per entry, index label = position in page
PageFrame(resp) ==
  [i \in 1..Len(resp.track) |->
     [artist |-> resp.track[i].artist, album |-> resp.track[i].album,
      track |-> resp.track[i].name,
      datetime |-> ToDatetime(resp.track[i].hasDate, resp.track[i].date),
      image |-> resp.track[i].image, label |-> i - 1]]

\* df.loc[0, "datetime"] = v: every row whose index label is 0
SetLabelZero(rows, v) ==
  [i \in DOMAIN rows |->
     IF rows[i].label = 0 THEN [rows[i] EXCEPT !.datetime = v] ELSE rows[i]]

\* the track now playing is put 3 minutes before the row after it
FillNowPlayingBefore(rows) ==
  IF \E i \in DOMAIN rows : rows[i].datetime = NaT
  THEN SetLabelZero(rows, IF rows[2].datetime = NaT THEN NaT
                          ELSE rows[2].datetime - SynthOffset)
  ELSE rows

\* lines 164-169: the timestamp of the track now playing
FillNowPlaying(rows) ==
  IF \E i \in DOMAIN rows : rows[i].datetime = NaT
  THEN SetLabelZero(rows, IF rows[2].datetime = NaT THEN NaT
                          ELSE rows[2].datetime + SynthOffset)
  ELSE rows

\* lines 171-174
ReplaceDollars(rows) ==
  [i \in DOMAIN rows |->
     [rows[i] EXCEPT !.artist = ReplaceDollar(@), !.album = ReplaceDollar(@),
                     !.track = ReplaceDollar(@)]]

\* a row without its index label
Unlabel(r) ==
  [artist |-> r.artist, album |-> r.album, track |-> r.track,
   datetime |-> r.datetime, image |-> r.image]

\* the exception _parse_responses raises on resps, "none" when it returns
ParseExc(resps) ==
  IF \E i \in DOMAIN resps : ~resps[i].hasTracks THEN "KeyError"
  ELSE IF resps = <<>> THEN "ValueError"
  ELSE LET rows == Concat([i \in DOMAIN resps |-> PageFrame(resps[i])])
       IN  IF /\ \E i \in DOMAIN rows : rows[i].datetime = NaT
              /\ Len(rows) < 2
           THEN "IndexError" ELSE "none"

\* the labelled rows _parse_responses builds, when it raises nothing
ParseRows(resps) ==
  LET rows == Concat([i \in DOMAIN resps |-> PageFrame(resps[i])])
  IN  IF Len(rows) > 0 THEN ReplaceDollars(FillNowPlaying(rows)) ELSE rows

\* the frame _parse_responses returns
ParseResponses(resps) ==
  LET rows == ParseRows(resps) IN [i \in DOMAIN rows |-> Unlabel(rows[i])]

(***************************************************************************)
(* The csv file: DataFrame.to_csv(index=False) and pd.read_csv.            *)
(***************************************************************************)
\* to_csv(na_rep="nan"): a missing text is written as the word
ToCsvTextNaRep(x) == IF x = NaN THEN <<"n", "a", "n">> ELSE x

\* a text value as to_csv writes it: NaN is an empty field
ToCsvText(x) == IF x = NaN THEN <<>> ELSE x

\* a text field as read_csv reads it: an empty field is NaN
FromCsvText(f) == IF f = <<>> THEN NaN ELSE f

\* the de-duplicated frame is written, the frame as merged is returned
ToCsvDeduplicated(rows) ==
  LET kept == {i \in DOMAIN rows : \A j \in 1..(i - 1) : rows[j] # rows[i]}
      RECURSIVE Pick(_)
      Pick(n) == IF n = 0 THEN <<>>
                 ELSE Pick(n - 1) \o (IF n \in kept THEN <<rows[n]>> ELSE <<>>)
      d == Pick(Len(rows))
  IN  [i \in DOMAIN d |->
         [artist |-> ToCsvText(d[i].artist), album |-> ToCsvText(d[i].album),
          track |-> ToCsvText(d[i].track), datetime |-> d[i].datetime,
          image |-> ToCsvText(d[i].image)]]

\* df.to_csv(path, index=False)
ToCsv(rows) ==
  [i \in DOMAIN rows |->
     [artist |-> ToCsvText(rows[i].artist), album |-> ToCsvText(rows[i].album),
      track |-> ToCsvText(rows[i].track), datetime |-> rows[i].datetime,
      image |-> ToCsvText(rows[i].image)]]

\* pd.read_csv(path, header=0) and the ISO8601 parse of "datetime"
ReadCsv(file) ==
  [i \in DOMAIN file |->
     [artist |-> FromCsvText(file[i].artist), album |-> FromCsvText(file[i].album),
      track |-> FromCsvText(file[i].track), datetime |-> file[i].datetime,
      image |-> FromCsvText(file[i].image)]]

\* the seconds added to the newest stored timestamp
ResumeOffset == 60

\* the cursor without its offset: the newest stored timestamp itself
ResumePointNoOffset(rows) == rows[1].datetime

\* the cursor taken from the last row of the record, the oldest
ResumePointLastRow(rows) == rows[Len(rows)].datetime + ResumeOffset

\* int(df["datetime"].iloc[0].timestamp() + 60)
ResumePoint(rows) == rows[1].datetime + ResumeOffset

RECURSIVE DropDuplicates(_)
\* df.drop_duplicates(): the first of each group of equal rows
DropDuplicates(rows) ==
  IF rows = <<>> THEN <<>>
  ELSE LET rest == DropDuplicates(SubSeq(rows, 1, Len(rows) - 1))
           last == rows[Len(rows)]
       IN  IF \E i \in DOMAIN rest : rest[i] = last THEN rest
           ELSE Append(rest, last)

(***************************************************************************)
(* The state after construction: nothing scrobbled, no csv file.           *)
(***************************************************************************)
Init ==
  /\ scrobbles = <<>>
  /\ nowplaying = 0
  /\ version = 0
  /\ csv = NoFile
  /\ pc = "idle"
  /\ df = None
  /\ start = 0
  /\ page = 1
  /\ total_pages = Placeholder
  /\ responses = <<>>
  /\ requests = <<>>
  /\ df_new = <<>>
  /\ ret = <<>>
  /\ exc = "none"
  /\ csv0 = NoFile
  /\ n0 = 0
  /\ prev = [returned |-> FALSE, n0 |-> 0, csv |-> NoFile]
  /\ syncs = 0
  /\ cursors = <<>>

(***************************************************************************)
(* The remote service changes.                                             *)
(***************************************************************************)
remoteVars == << scrobbles, nowplaying, version >>
callVars == << csv, pc, df, start, page, total_pages, responses, requests,
               df_new, ret, exc, csv0, n0, prev, syncs, cursors >>

\* the track the user plays to the end at tick k: the tracks alternate
TrackAt(k) == 1 + (k % Len(TrackInfos))

\* a track is scrobbled, later than every scrobble so far
Scrobble ==
  /\ version < MaxEnvSteps
  /\ Len(scrobbles) < MaxEvents
  /\ \E k \in 1..MaxTick :
       /\ \A i \in DOMAIN scrobbles : scrobbles[i].uts < 30 * k
       /\ scrobbles' = Append(scrobbles, [uts |-> 30 * k, info |-> TrackAt(k)])
  /\ version' = version + 1
  /\ UNCHANGED << nowplaying, callVars >>

\* the user starts playing a track
StartPlaying ==
  /\ version < MaxEnvSteps
  /\ nowplaying = 0
  /\ \E info \in DOMAIN TrackInfos : nowplaying' = info
  /\ version' = version + 1
  /\ UNCHANGED << scrobbles, callVars >>

\* the track now playing ends
StopPlaying ==
  /\ version < MaxEnvSteps
  /\ nowplaying # 0
  /\ nowplaying' = 0
  /\ version' = version + 1
  /\ UNCHANGED << scrobbles, callVars >>

(***************************************************************************)
(* load_user                                                               *)
(***************************************************************************)
\* lines 190-202 and 110-113: read the csv file, derive the cursor
LoadUserBegin ==
  /\ pc \in {"idle", "returned", "raised"}
  /\ syncs < MaxSyncs
  /\ syncs' = syncs + 1
  /\ cursors' = IF pc = "returned" THEN Append(cursors, start) ELSE cursors
  /\ prev' = [returned |-> pc = "returned", n0 |-> n0, csv |-> csv]
  /\ csv0' = csv
  /\ n0' = Len(scrobbles)
  /\ df' = IF csv.exists THEN [none |-> FALSE, rows |-> ReadCsv(csv.rows)]
           ELSE None
  /\ page' = 1
  /\ total_pages' = Placeholder
  /\ responses' = <<>>
  /\ requests' = <<>>
  /\ df_new' = <<>>
  /\ ret' = <<>>
  /\ IF csv.exists /\ (csv.rows = <<>> \/ ReadCsv(csv.rows)[1].datetime = NaT)
     THEN \* iloc[0] of an empty frame / NaT.timestamp()
          /\ pc' = "raised"
          /\ exc' = IF csv.rows = <<>> THEN "IndexError" ELSE "ValueError"
          /\ start' = 0
     ELSE /\ pc' = "fetch"
          /\ exc' = "none"
          /\ start' = IF csv.exists THEN ResumePoint(ReadCsv(csv.rows)) ELSE 0
  /\ UNCHANGED << csv, remoteVars >>

\* the stored rows are dropped when new rows arrive
MergeNewOnly(new, old) ==
  IF Len(new) > 0 THEN [none |-> FALSE, rows |-> new] ELSE old

\* the new rows after the stored ones
MergeOldFirst(new, old) ==
  IF Len(new) > 0
  THEN (IF ~old.none THEN [none |-> FALSE, rows |-> old.rows \o new]
        ELSE [none |-> FALSE, rows |-> new])
  ELSE old

\* lines 208-212: the new rows before the stored ones
Merge(new, old) ==
  IF Len(new) > 0
  THEN (IF ~old.none THEN [none |-> FALSE, rows |-> new \o old.rows]
        ELSE [none |-> FALSE, rows |-> new])
  ELSE old

\* lines 142-144 and 207-219: parse what was fetched (early: the empty frame
\* of line 132), merge, write the csv file, return
Finish(resps, early) ==
  LET parseExc == IF early THEN "none" ELSE ParseExc(resps)
      new      == IF early THEN <<>> ELSE ParseResponses(resps)
      merged   == Merge(new, df)
      unused   == DropDuplicates(merged.rows)  \* line 214: result dropped
  IN  IF parseExc # "none"
      THEN /\ pc' = "raised"
           /\ exc' = parseExc
           /\ UNCHANGED << csv, df_new, ret >>
      ELSE IF merged.none
      THEN \* None.drop_duplicates()
           /\ pc' = "raised"
           /\ exc' = "AttributeError"
           /\ df_new' = new
           /\ UNCHANGED << csv, ret >>
      ELSE /\ pc' = "returned"
           /\ exc' = "none"
           /\ df_new' = new
           /\ csv' = [exists |-> TRUE, rows |-> ToCsv(merged.rows)]
           /\ ret' = merged.rows

\* the request of lines 119-121 as it is logged, with whether its response
\* came from the response cache and whether time.sleep followed it
Request(result, cached, slept) ==
  [page |-> page, limit |-> PageLimit, from |-> start, result |-> result,
   cached |-> cached, slept |-> slept]

\* time.sleep after every response
SleepsAlways(fromCache) == TRUE

\* lines 136-138: sleep unless the response came from the cache
Sleeps(fromCache) == ~fromCache

\* total_pages read again from every response
NewTotalEveryPage(p, reported, current) == reported

\* lines 127-130: total_pages is read from the response of page 1 only
NewTotal(p, reported, current) == IF p = 1 THEN reported ELSE current

\* page += 2
NextPageSkips(p) == p + 2

\* line 140: page += 1
NextPage(p) == p + 1

\* the pages fetched before the failure are merged and written
PageTransportFailureSaves ==
  /\ pc = "fetch"
  /\ page <= total_pages
  /\ requests' = Append(requests, Request("transport", FALSE, FALSE))
  /\ pc' = "raised"
  /\ exc' = "ConnectionError"
  /\ csv' = IF responses # <<>> /\ ParseExc(responses) = "none"
            THEN [exists |-> TRUE,
                  rows |-> ToCsv(Merge(ParseResponses(responses), df).rows)]
            ELSE csv
  /\ UNCHANGED << df, start, page, total_pages, responses, df_new, ret,
                  csv0, n0, prev, syncs, cursors, remoteVars >>

\* requests.get raises (line 72): the exception leaves load_user
PageTransportFailure ==
  /\ pc = "fetch"
  /\ page <= total_pages
  /\ requests' = Append(requests, Request("transport", FALSE, FALSE))
  /\ pc' = "raised"
  /\ exc' = "ConnectionError"
  /\ UNCHANGED << csv, df, start, page, total_pages, responses, df_new, ret,
                  csv0, n0, prev, syncs, cursors, remoteVars >>

\* lines 123-125: a status other than 200 ends the loop
PageBadStatus ==
  /\ pc = "fetch"
  /\ page <= total_pages
  /\ requests' = Append(requests, Request("status", FALSE, FALSE))
  /\ Finish(responses, FALSE)
  /\ UNCHANGED << df, start, page, total_pages, responses, csv0, n0, prev,
                  syncs, cursors, remoteVars >>

\* lines 127-140: a status-200 response, with or without its track list,
\* from the network or from the response cache
PageOk(hasTracks) ==
  /\ pc = "fetch"
  /\ page <= total_pages
  /\ \E cached \in BOOLEAN :
       LET resp  == Response(start, page, hasTracks)
           total == NewTotal(page, resp.totalPages, total_pages)
       IN  /\ total_pages' = total
           /\ IF page = 1 /\ total = 0
              THEN /\ requests' = Append(requests, Request("ok", cached, FALSE))
                   /\ Finish(responses, TRUE)
                   /\ UNCHANGED << page, responses >>
              ELSE /\ requests' =
                        Append(requests, Request("ok", cached, Sleeps(cached)))
                   /\ responses' = Append(responses, resp)
                   /\ page' = NextPage(page)
                   /\ IF NextPage(page) <= total
                      THEN UNCHANGED << csv, pc, df_new, ret, exc >>
                      ELSE Finish(Append(responses, resp), FALSE)
  /\ UNCHANGED << df, start, csv0, n0, prev, syncs, cursors, remoteVars >>

PageSuccess == PageOk(TRUE)

\* the payload of a status-200 response holds no "track" list
PageNoTrackList == PageOk(FALSE)

Next ==
  \/ Scrobble
  \/ StartPlaying
  \/ StopPlaying
  \/ LoadUserBegin
  \/ PageTransportFailure
  \/ PageBadStatus
  \/ PageSuccess
  \/ PageNoTrackList

Spec == Init /\ [][Next]_vars

(***************************************************************************)
(* What the claims speak of.                                               *)
(***************************************************************************)
\* the calls of load_user that returned have written the csv file
Synced == pc = "returned"

\* 1-based position in the parsed frame of entry i of response k
RowOf(resps, k, i) ==
  Len(Concat([j \in 1..(k - 1) |-> PageFrame(resps[j])])) + i

\* C1: after a sync, the saved record holds at most one row per timestamp.
NoDuplicateTimestamps ==
  Synced => \A i, j \in DOMAIN csv.rows :
              i # j => csv.rows[i].datetime # csv.rows[j].datetime

\* C2: after a sync, the saved record is sorted by timestamp, newest first.
SortedDescending ==
  Synced => \A i, j \in DOMAIN csv.rows :
              i < j => csv.rows[i].datetime >= csv.rows[j].datetime

\* the largest of a non-empty sequence of times
MaxTime(rows) ==
  CHOOSE t \in {rows[i].datetime : i \in DOMAIN rows} :
    \A i \in DOMAIN rows : rows[i].datetime <= t

\* no scrobble has reached the remote service since the previous call
\* started, and both that call and this one returned
TwiceInSuccession == Synced /\ prev.returned /\ prev.n0 = Len(scrobbles)

ZeroPagesOverRecord == Synced /\ csv0.exists /\ total_pages = 0

CursorIsNewestPlus60 ==
  \A i \in DOMAIN requests :
    requests[i].from = IF csv0.exists THEN MaxTime(csv0.rows) + 60 ELSE 0

\* C6 happens: a sync that started from a record of two rows or more, with
\* different timestamps, has fetched new events from its cursor
CursorWitness ==
  /\ Synced
  /\ csv0.exists
  /\ csv0.rows[1].datetime # csv0.rows[Len(csv0.rows)].datetime
  /\ requests[1].from > 60
  /\ df_new # <<>>

\* the texts of the saved record
SavedTexts ==
  UNION {{csv.rows[i].artist, csv.rows[i].album, csv.rows[i].track} :
           i \in DOMAIN csv.rows}

\* C10: no artist, album or track of the saved record holds a dollar sign.
NoDollarSaved ==
  \A t \in SavedTexts : \A k \in DOMAIN t : t[k] # "$"

\* C10 happens: a scrobble whose track and artist arrived with a dollar sign
\* is in the saved record
NoDollarWitness ==
  /\ Synced
  /\ \E i \in DOMAIN csv.rows : csv.rows[i].track = <<"s", "x">>
  /\ \E i \in DOMAIN csv.rows : csv.rows[i].artist = <<"A", "s">>
  /\ \E i \in DOMAIN scrobbles : TrackInfos[scrobbles[i].info].name = <<"$", "x">>

\* load_user has ended, by returning or by raising
Ended == pc \in {"returned", "raised"}

\* row r, as to_csv writes it, is a row of the saved record
InSaved(r) == \E j \in DOMAIN csv.rows : csv.rows[j] = ToCsv(<<r>>)[1]

\* the entries that arrived with a date in the responses that hold a track
\* list, as rows with their own timestamps and their texts normalised
DatedFetched ==
  LET rows == Concat([k \in DOMAIN responses |-> PageFrame(responses[k])])
  IN  {Unlabel(ReplaceDollars(rows)[i]) :
         i \in {n \in DOMAIN rows : rows[n].datetime # NaT}}

\* C5: in what the parser returns, the first entry of a page that arrived
\* without a date, followed by an entry dated T, has the timestamp
\* T + 3 minutes.
NowPlayingIsNextPlus3Min ==
  (Synced /\ total_pages # 0) =>
    \A k \in DOMAIN responses :
      LET tr == responses[k].track
      IN  (Len(tr) >= 2 /\ ~tr[1].hasDate /\ tr[2].hasDate) =>
            df_new[RowOf(responses, k, 1)].datetime
              = ToDatetime(TRUE, tr[2].date) + 180

\* C7: a sync one of whose page requests (page 1 too) got a status other
\* than 200 returns, asks for no further page, and saves the rows parsed from
\* the pages before it.
BadStatusIsPartialSuccess ==
  (Ended /\ \E i \in DOMAIN requests : requests[i].result = "status") =>
    /\ requests[Len(requests)].result = "status"
    /\ pc = "returned"
    /\ \A i \in DOMAIN df_new : InSaved(df_new[i])

\* C8: a transport failure on page k reaches the caller, the page is asked
\* for once, and the events of pages 1..k-1 are in the resulting record.
TransportFailureKeepsPages ==
  (pc = "raised" /\ exc = "ConnectionError") =>
    /\ Cardinality({i \in DOMAIN requests : requests[i].page = page}) = 1
    /\ \A r \in DatedFetched : InSaved(r)

\* C9: a sync that fetched a page without a track list, every request
\* answered with status 200, returns, and the events of the other pages are
\* in the saved record.
MissingTrackListIsNoEvents ==
  (/\ Ended
   /\ \A i \in DOMAIN requests : requests[i].result = "ok"
   /\ \E k \in DOMAIN responses : ~responses[k].hasTracks) =>
    /\ pc = "returned"
    /\ \A r \in DatedFetched : InSaved(r)

\* every request so far was answered with status 200
AllOk == \A i \in DOMAIN requests : requests[i].result = "ok"

\* C11: between a page request and the next one of the same fetch the code
\* sleeps if and only if the earlier response did not come from the cache.
PausedUnlessCached ==
  \A i \in DOMAIN requests :
    i < Len(requests) => (requests[i].slept <=> ~requests[i].cached)

\* C11 happens: a fetch of three requests, the first response from the
\* cache, the second from the network
PausedWitness ==
  /\ Len(requests) = 3
  /\ requests[1].cached
  /\ ~requests[2].cached

\* C12: when page 1 reports N >= 1 pages and every response succeeds, the
\* requests are pages 1..N in order, each once, all with the cursor of the
\* call and the full page size.
PagesInOrder ==
  /\ \A i \in DOMAIN requests :
       /\ requests[i].page = i
       /\ requests[i].from = start
       /\ requests[i].limit = PageLimit
  /\ (Ended /\ AllOk /\ responses # <<>>) =>
       Len(requests) = responses[1].totalPages

\* C12 happens: a sync that started from a record, with a cursor past 0,
\* has fetched the two pages page 1 reported
PagesInOrderWitness ==
  /\ Ended
  /\ AllOk
  /\ csv0.exists
  /\ responses # <<>>
  /\ responses[1].totalPages = 2
  /\ Len(requests) = 2
  /\ requests[2].from > 0

\* C20: a fetch issues one request when page 1 fails or reports zero pages,
\* and otherwise at most N requests, N the total page 1 reported, whatever
\* later pages report; while it runs, each step issues the next request.
FetchIsBounded ==
  /\ (requests # <<>> /\ (requests[1].result # "ok" \/ total_pages = 0)) =>
       Ended /\ Len(requests) = 1
  /\ responses # <<>> =>
       /\ total_pages = responses[1].totalPages
       /\ Len(requests) <= responses[1].totalPages
  /\ pc = "fetch" => page <= total_pages /\ Len(requests) = page - 1

\* C20 happens: page 2 reported another total than page 1, and the fetch
\* has ended
FetchIsBoundedWitness ==
  /\ Ended
  /\ Len(responses) >= 2
  /\ responses[2].totalPages # responses[1].totalPages

\* C13: the record a sync saved, read back from the csv file, has the
\* artist, album and track text and the timestamp of every row as returned.
RoundTrip ==
  Synced =>
    \A i \in DOMAIN ret :
      LET back == ReadCsv(csv.rows)[i]
      IN  /\ back.artist = ret[i].artist
          /\ back.album = ret[i].album
          /\ back.track = ret[i].track
          /\ back.datetime = ret[i].datetime

\* scrobble s is in the saved record: a row with its minute and its texts
Stored(s) ==
  \E j \in DOMAIN csv.rows :
    /\ csv.rows[j].datetime = ToDatetime(TRUE, DateText(s.uts))
    /\ csv.rows[j].track = ToCsvText(ReplaceDollar(TrackInfos[s.info].name))
    /\ csv.rows[j].artist = ToCsvText(ReplaceDollar(TrackInfos[s.info].artist))

\* C14: after a sync whose requests all succeeded, every scrobble the remote
\* service held during that sync is in the saved record.
NoEventSkipped ==
  (Synced /\ AllOk /\ n0 = Len(scrobbles)) =>
    \A i \in DOMAIN scrobbles : Stored(scrobbles[i])

\* C15: the rows stored before a sync are still stored after it, in their
\* order, at the end of the record.
StoredNeverShrinks ==
  csv0.exists =>
    /\ csv.exists
    /\ Len(csv.rows) >= Len(csv0.rows)
    /\ \A j \in DOMAIN csv0.rows :
         csv.rows[Len(csv.rows) - Len(csv0.rows) + j] = csv0.rows[j]

\* C15 happens: a sync over an existing record has saved new rows
StoredNeverShrinksWitness ==
  /\ Synced
  /\ csv0.exists
  /\ Len(csv.rows) > Len(csv0.rows)

\* C16: a sync without a csv file to which page 1 reports zero pages
\* returns, with no new events and an empty record.
FirstSyncOfNothing ==
  (Ended /\ ~csv0.exists /\ total_pages = 0) =>
    /\ pc = "returned"
    /\ df_new = <<>>
    /\ ret = <<>>

\* C17: the record a sync returns has the rows of the record it saved, in
\* the same order.
ReturnedIsSaved ==
  Synced =>
    /\ Len(ret) = Len(csv.rows)
    /\ \A i \in DOMAIN ret :
         /\ csv.rows[i].artist = (IF ret[i].artist = NaN THEN <<>> ELSE ret[i].artist)
         /\ csv.rows[i].album = (IF ret[i].album = NaN THEN <<>> ELSE ret[i].album)
         /\ csv.rows[i].track = (IF ret[i].track = NaN THEN <<>> ELSE ret[i].track)
         /\ csv.rows[i].datetime = ret[i].datetime

\* C17 happens: a sync returned new rows, one with an empty album, before
\* rows read from the file, one with a missing album
ReturnedIsSavedWitness ==
  /\ Synced
  /\ df_new # <<>>
  /\ \E i \in DOMAIN ret : ret[i].album = <<>>
  /\ \E i \in DOMAIN ret : ret[i].album = NaN

\* the entries of the responses, page 1 first, in the order of each page
Fetched == Concat([k \in DOMAIN responses |-> responses[k].track])

\* C18: the timestamp given to an entry without a date is later than the
\* API timestamp of every dated entry of its fetch, and is the timestamp of
\* no dated entry's row nor of a row stored before.
SyntheticIsApart ==
  (Synced /\ df_new # <<>>) =>
    \A p \in DOMAIN Fetched :
      ~Fetched[p].hasDate =>
        /\ \A q \in DOMAIN Fetched :
             Fetched[q].hasDate =>
               /\ df_new[p].datetime > ToDatetime(TRUE, Fetched[q].date)
               /\ df_new[p].datetime # df_new[q].datetime
        /\ \A j \in DOMAIN csv0.rows :
             csv0.rows[j].datetime # df_new[p].datetime

\* C19: over an existing record, the saved record is the fetched entries,
\* page 1 first and in the order of each page, then the stored rows in
\* their order.
MergedIsNewThenOld ==
  (Synced /\ csv0.exists /\ df_new # <<>>) =>
    /\ Len(csv.rows) = Len(Fetched) + Len(csv0.rows)
    /\ \A i \in DOMAIN Fetched :
         /\ csv.rows[i].track = ToCsvText(ReplaceDollar(Fetched[i].name))
         /\ csv.rows[i].artist = ToCsvText(ReplaceDollar(Fetched[i].artist))
         /\ csv.rows[i].album = ToCsvText(ReplaceDollar(Fetched[i].album))
    /\ \A j \in DOMAIN csv0.rows : csv.rows[Len(Fetched) + j] = csv0.rows[j]

\* C19 happens: two pages were fetched over an existing record
MergedWitness ==
  /\ Synced
  /\ csv0.exists
  /\ Len(responses) = 2
  /\ Len(Fetched) >= 3

(***************************************************************************)
(* _parse_responses on its own: the fetch results it may be handed, each   *)
(* response with its track list, and one call of it.                       *)
(***************************************************************************)
\* the ticks of the dated entries of one page, most recent first
DatedRuns ==
  UNION {{d \in [1..n -> 1..MaxTick] : \A i \in 1..(n - 1) : d[i] > d[i + 1]} :
           n \in 0..PageLimit}

\* a page starts with the track now playing, or with none
Heads == {<<>>} \cup {<<Entry(info, FALSE, 0)>> : info \in DOMAIN TrackInfos}

\* the dated entries of a page
EntriesOf(d) == [i \in DOMAIN d |-> Entry(TrackAt(d[i]), TRUE, 30 * d[i])]

\* every page but the last is full, and a page is older than the one before
PagesFollow(ds) ==
  \A k \in 1..(Len(ds) - 1) :
    /\ Len(ds[k]) = PageLimit
    /\ ds[k + 1] # <<>> => ds[k][PageLimit] > ds[k + 1][1]

\* the lists of responses _get_all_scrobbles may hand to _parse_responses
FetchResults ==
  UNION {{[k \in 1..n |->
             [totalPages |-> n, hasTracks |-> TRUE,
              track |-> hs[k] \o EntriesOf(ds[k])]] :
            hs \in [1..n -> Heads],
            ds \in {x \in [1..n -> DatedRuns] : PagesFollow(x)}} :
           n \in 0..MaxPages}

ParseInit ==
  /\ responses \in FetchResults
  /\ scrobbles = <<>>
  /\ nowplaying = 0
  /\ version = 0
  /\ csv = NoFile
  /\ pc = "idle"
  /\ df = None
  /\ start = 0
  /\ page = 1
  /\ total_pages = Placeholder
  /\ requests = <<>>
  /\ df_new = <<>>
  /\ ret = <<>>
  /\ exc = "none"
  /\ csv0 = NoFile
  /\ n0 = 0
  /\ prev = [returned |-> FALSE, n0 |-> 0, csv |-> NoFile]
  /\ syncs = 0
  /\ cursors = <<>>

\* line 142: df = self._parse_responses(responses)
ParseCall ==
  /\ pc = "idle"
  /\ exc' = ParseExc(responses)
  /\ pc' = IF ParseExc(responses) = "none" THEN "parsed" ELSE "raised"
  /\ df_new' = IF ParseExc(responses) = "none" THEN ParseResponses(responses)
               ELSE <<>>
  /\ UNCHANGED << scrobbles, nowplaying, version, csv, df, start, page,
                  total_pages, responses, requests, ret, csv0, n0, prev,
                  syncs, cursors >>

ParseNext == ParseCall

ParseSpec == ParseInit /\ [][ParseNext]_vars

\* C21: handed a fetch result with an entry or more, the parser returns one
\* row per entry, each with a timestamp that is not missing; so too when the
\* only entry is the track now playing.
EveryTimestampResolved ==
  (pc \in {"parsed", "raised"} /\ Fetched # <<>>) =>
    /\ pc = "parsed"
    /\ Len(df_new) = Len(Fetched)
    /\ \A i \in DOMAIN df_new : df_new[i].datetime # NaT

\* C22: after parsing two pages or more with an entry without a date, every
\* entry that arrived with a date has the timestamp of its date.
DatedKeepTheirTimestamp ==
  (/\ Synced
   /\ Len(responses) >= 2
   /\ df_new # <<>>
   /\ \E p \in DOMAIN Fetched : ~Fetched[p].hasDate) =>
    \A p \in DOMAIN Fetched :
      Fetched[p].hasDate =>
        df_new[p].datetime = ToDatetime(TRUE, Fetched[p].date)

\* C23: when a sync ends with the transport failure of a page request, the
\* csv file is what it was when the sync started.
TransportFailureWritesNothing ==
  (pc = "raised" /\ exc = "ConnectionError") => csv = csv0

\* C23 happens: over an existing record, page 1 arrived with its entries and
\* the request of page 2 failed
TransportFailureWitness ==
  /\ pc = "raised"
  /\ exc = "ConnectionError"
  /\ csv0.exists
  /\ Len(requests) = 2
  /\ Len(responses) = 1
  /\ responses[1].track # <<>>

\* C24: the cursor of a sync that returned is at or after the cursor of every
\* sync that returned before it.
CursorNeverGoesBack ==
  Synced => \A i \in DOMAIN cursors : cursors[i] <= start

\* C24 happens: a third sync returned, the second started from a record and
\* the third from a later cursor
CursorNeverGoesBackWitness ==
  /\ Synced
  /\ Len(cursors) = 2
  /\ cursors[2] > cursors[1]
  /\ start > cursors[2]

====
